---- MODULE Spec2Model ----
(***************************************************************************)
(* State-machine model of the client views of the clinical decision        *)
(* support front end: the ClinicalQuery view (query form, submission,      *)
(* query history), the DrugInteractions view (medication list,             *)
(* interaction check with its per-drug summary fan-out), the               *)
(* GuidelinesExplorer view (search, specialty filter, detail fetch), the   *)
(* KnowledgeRepository view (document search, selection, bibliography      *)
(* export), the page switch of App, and the severity and evidence-level    *)
(* badges.                                                                 *)
(*                                                                         *)
(* Text is modelled as a sequence of characters so that String.trim() and  *)
(* String.toUpperCase() are computed and not assumed.  A pending promise   *)
(* is a record holding what the handler's closure captured when it was     *)
(* invoked.                                                                *)
(***************************************************************************)
EXTENDS Naturals, Sequences, FiniteSets

VARIABLES
    \* ClinicalQuery component state (useState hooks)
    query, patientContext, isLoading, response, cqError, queryHistory,
    \* pending clinicalAPI.submitQuery calls of handleSubmit
    submitCalls,
    \* history variable: the submitQuery call that settled in the last step, if one did
    settled,
    \* DrugInteractions component state (useState hooks)
    medications, interactions, drugSummaries, loading, diError,
    \* pending checkInteractions invocations
    checks,
    \* history variable: the checkInteractions invocation that ended in the
    \* last step, if one did
    checked,
    \* App: the page whose component is mounted
    currentPage,
    \* App: the mobile sidebar (useState hooks) and the pending 300 ms timers of
    \* closeSidebar, oldest first; a timer is stale once openSidebar has run
    \* after it was started
    sidebarOpen, sidebarClosing, closeTimers,
    \* history variable: the page whose edited state a navigation from the mobile
    \* menu last discarded, if one did
    discarded,
    \* GuidelinesExplorer component state (useState hooks; searchQuery, loading
    \* and stats of the component are geSearchQuery, geLoading and geStats)
    guidelines, selectedGuideline, geSearchQuery, selectedSpecialty, geLoading, geStats,
    \* pending handler invocations of the GuidelinesExplorer, in issue order
    geCalls,
    \* history variable: the GuidelinesExplorer invocation that settled in the
    \* last step, if one did
    geSettled,
    \* KnowledgeRepository component state (useState hooks; searchQuery, loading
    \* and stats of the component are krSearchQuery, krLoading and krStats)
    documents, krSearchQuery, filters, krLoading, krStats, searchLoading, selectedDocuments,
    \* the text of the window.alert raised by the last step, if it raised one
    alertMessage,
    \* pending handler invocations of the KnowledgeRepository, in issue order
    krCalls,
    \* history variable: the KnowledgeRepository invocation that settled in the
    \* last step, if one did
    krSettled,
    \* the drug-interaction severity badge and the evidence-level badge last
    \* rendered, if any
    severityBadge, evidenceBadge

cqVars == <<query, patientContext, isLoading, response, cqError, queryHistory, submitCalls, settled>>
diVars == <<medications, interactions, drugSummaries, loading, diError, checks, checked>>
geVars == <<guidelines, selectedGuideline, geSearchQuery, selectedSpecialty, geLoading, geStats,
            geCalls, geSettled>>
krVars == <<documents, krSearchQuery, filters, krLoading, krStats, searchLoading,
            selectedDocuments, alertMessage, krCalls, krSettled>>
badgeVars == <<severityBadge, evidenceBadge>>
sidebarVars == <<sidebarOpen, sidebarClosing, closeTimers>>
appVars == <<currentPage, sidebarVars, discarded>>
\* what a step of one view leaves alone
exceptCQ == <<diVars, appVars, geVars, krVars, badgeVars>>
exceptDI == <<cqVars, appVars, geVars, krVars, badgeVars>>
exceptGE == <<cqVars, diVars, appVars, krVars, badgeVars>>
exceptKR == <<cqVars, diVars, appVars, geVars, badgeVars>>
vars == <<query, patientContext, isLoading, response, cqError, queryHistory, submitCalls, settled,
          medications, interactions, drugSummaries, loading, diError, checks, checked,
          appVars, geVars, krVars, badgeVars>>

----------------------------------------------------------------------------
(* Text *)

WhiteSpace == {" "}

EmptyText == << >>

RECURSIVE TrimStart(_)
TrimStart(s) ==
    IF s # << >> /\ Head(s) \in WhiteSpace THEN TrimStart(Tail(s)) ELSE s

RECURSIVE TrimEnd(_)
TrimEnd(s) ==
    IF s # << >> /\ s[Len(s)] \in WhiteSpace THEN TrimEnd(SubSeq(s, 1, Len(s) - 1)) ELSE s

\* String.prototype.trim
Trim(s) == TrimEnd(TrimStart(s))

\* Array.prototype.includes
Includes(seq, x) == \E i \in 1..Len(seq) : seq[i] = x

\* Array.prototype.slice(0, n)
Slice0(seq, n) == SubSeq(seq, 1, IF Len(seq) < n THEN Len(seq) ELSE n)

NULL == "null"

----------------------------------------------------------------------------
(* ClinicalQuery view *)

\* what the user can type into the query textarea
QueryTexts ==
    { << >>, <<" ">>, <<"a">>, <<" ", "a", " ">>,
      <<"b">>, <<"c">>, <<"d">>, <<"e">>, <<"f">> }

\* what the textarea holds when handleSubmit is exercised on its own
HandlerTexts == { << >>, <<" ">>, <<"a">>, <<" ", "a", " ">>, <<"b">> }

\* most calls a directly exercised handler has pending at a time
MaxInFlight == 1

\* response bodies the backend may return for POST /clinical/query
Responses == {"r1", "r2"}

EmptyContext == [k \in {} |-> NULL]

QueryRequiredMsg == "Please enter a clinical query"
QueryErrorMsg == "Error processing clinical query. Please try again."

\* setQueryHistory updater: (prev) => [query.trim(), ...prev.slice(0, 4)]
HistoryKeep == 4

PushHistory_NoSlice(prev, q) == <<q>> \o prev

PushHistory(prev, q) == <<q>> \o Slice0(prev, HistoryKeep)

SubmitDisabled_NoLoading == Trim(query) = EmptyText

\* disabled attribute of the submit button
SubmitDisabled == isLoading \/ Trim(query) = EmptyText

\* textarea onChange
setQuery(t) ==
    /\ t # query
    /\ query' = t
    /\ settled' = << >>
    /\ UNCHANGED <<patientContext, isLoading, response, cqError, queryHistory, submitCalls>>

handleQuerySelect(selectedQuery) ==
    /\ query' = selectedQuery
    /\ cqError' = NULL
    /\ settled' = << >>
    /\ UNCHANGED <<patientContext, isLoading, response, queryHistory, submitCalls>>

\* the pending calls are left running; each is marked as having been pending
\* when the form was cleared
clearForm ==
    /\ query' = EmptyText
    /\ patientContext' = EmptyContext
    /\ response' = NULL
    /\ cqError' = NULL
    /\ settled' = << >>
    /\ submitCalls' = [ i \in 1..Len(submitCalls) |-> [ submitCalls[i] EXCEPT !.cleared = TRUE ] ]
    /\ UNCHANGED <<isLoading, queryHistory>>

handleSubmit_NoTrim ==
    /\ settled' = << >>
    /\ IF query = EmptyText
       THEN /\ cqError' = QueryRequiredMsg
            /\ UNCHANGED <<query, patientContext, isLoading, response, queryHistory, submitCalls>>
       ELSE /\ isLoading' = TRUE
            /\ cqError' = NULL
            /\ response' = NULL
            /\ submitCalls' = Append(submitCalls,
                   [ query |-> Trim(query),
                     patient_context |->
                         IF DOMAIN patientContext # {} THEN << patientContext >> ELSE << >>,
                     queryHistory |-> queryHistory,
                     shown |-> response,
                     cleared |-> FALSE ])
            /\ UNCHANGED <<query, patientContext, queryHistory>>

handleSubmit_KeepResponse ==
    /\ settled' = << >>
    /\ IF Trim(query) = EmptyText
       THEN /\ cqError' = QueryRequiredMsg
            /\ UNCHANGED <<query, patientContext, isLoading, response, queryHistory, submitCalls>>
       ELSE /\ isLoading' = TRUE
            /\ cqError' = NULL
            /\ submitCalls' = Append(submitCalls,
                   [ query |-> Trim(query),
                     patient_context |->
                         IF DOMAIN patientContext # {} THEN << patientContext >> ELSE << >>,
                     queryHistory |-> queryHistory,
                     shown |-> response,
                     cleared |-> FALSE ])
            /\ UNCHANGED <<query, patientContext, response, queryHistory>>

\* handleSubmit up to its first await
handleSubmit ==
    /\ settled' = << >>
    /\ IF Trim(query) = EmptyText
       THEN /\ cqError' = QueryRequiredMsg
            /\ UNCHANGED <<query, patientContext, isLoading, response, queryHistory, submitCalls>>
       ELSE /\ isLoading' = TRUE
            /\ cqError' = NULL
            /\ response' = NULL
            /\ submitCalls' = Append(submitCalls,
                   [ query |-> Trim(query),
                     patient_context |->
                         IF DOMAIN patientContext # {} THEN << patientContext >> ELSE << >>,
                     queryHistory |-> queryHistory,
                     shown |-> response,
                     cleared |-> FALSE ])
            /\ UNCHANGED <<query, patientContext, queryHistory>>

RemoveAt(seq, i) == SubSeq(seq, 1, i - 1) \o SubSeq(seq, i + 1, Len(seq))

SubmitResolved_NoDedup(i, result) ==
    /\ i \in 1..Len(submitCalls)
    /\ response' = result
    /\ queryHistory' = PushHistory(queryHistory, submitCalls[i].query)
    /\ isLoading' = FALSE
    /\ submitCalls' = RemoveAt(submitCalls, i)
    /\ settled' = << [call |-> submitCalls[i], ok |-> TRUE] >>
    /\ UNCHANGED <<query, patientContext, cqError>>

\* submitQuery resolved: the rest of the try block, then finally
SubmitResolved(i, result) ==
    /\ i \in 1..Len(submitCalls)
    /\ response' = result
    /\ queryHistory' =
          IF ~Includes(submitCalls[i].queryHistory, submitCalls[i].query)
          THEN PushHistory(queryHistory, submitCalls[i].query)
          ELSE queryHistory
    /\ isLoading' = FALSE
    /\ submitCalls' = RemoveAt(submitCalls, i)
    /\ settled' = << [call |-> submitCalls[i], ok |-> TRUE] >>
    /\ UNCHANGED <<query, patientContext, cqError>>

SubmitRejected_NoFinally(i) ==
    /\ i \in 1..Len(submitCalls)
    /\ cqError' = QueryErrorMsg
    /\ submitCalls' = RemoveAt(submitCalls, i)
    /\ settled' = << [call |-> submitCalls[i], ok |-> FALSE] >>
    /\ UNCHANGED <<query, patientContext, isLoading, response, queryHistory>>

\* submitQuery rejected (network error or non-2xx): catch, then finally
SubmitRejected(i) ==
    /\ i \in 1..Len(submitCalls)
    /\ cqError' = QueryErrorMsg
    /\ isLoading' = FALSE
    /\ submitCalls' = RemoveAt(submitCalls, i)
    /\ settled' = << [call |-> submitCalls[i], ok |-> FALSE] >>
    /\ UNCHANGED <<query, patientContext, response, queryHistory>>

\* ---- the patient context of the clinical query
\* patientContext is a function from the keys the object has to their values.
\* A scalar value is << >> for undefined and << v >> otherwise; the value of
\* current_medications is the list itself.  The panel that holds the inputs is
\* toggled by showPatientContext, which has no effect on any other state.
NumberTexts == { << >>, <<"0">>, <<"6", "5">> }
GenderChoices == { "", "male" }
ContextMedTexts == { << >>, <<"x">> }
MaxContextMeds == 1

Digits == <<"0", "1", "2", "3", "4", "5", "6", "7", "8", "9">>
DigitValue(c) == (CHOOSE i \in 1..10 : Digits[i] = c) - 1

RECURSIVE DecimalValue(_)
DecimalValue(s) ==
    IF s = << >> THEN 0
    ELSE 10 * DecimalValue(SubSeq(s, 1, Len(s) - 1)) + DigitValue(s[Len(s)])

\* parseInt / parseFloat of the text of a number input holding digits only:
\* NaN, written << >>, for the empty text
parseInt(s) == IF s = << >> THEN << >> ELSE << DecimalValue(s) >>
parseFloat(s) == IF s = << >> THEN << >> ELSE << DecimalValue(s) >>

\* n || undefined: NaN and 0 are falsy
NumberOrUndefined(n) == IF n = << >> \/ n[1] = 0 THEN << >> ELSE n
\* text || undefined: the empty string is falsy
StringOrUndefined(t) == IF t = "" THEN << >> ELSE << t >>

\* { ...prev, [field]: value }: the key is present afterwards whatever the value
WithField(prev, field, value) ==
    [ k \in (DOMAIN prev) \cup {field} |-> IF k = field THEN value ELSE prev[k] ]

updatePatientContext(field, value) ==
    /\ patientContext' = WithField(patientContext, field, value)
    /\ settled' = << >>
    /\ UNCHANGED <<query, isLoading, response, cqError, queryHistory, submitCalls>>

\* patientContext.current_medications || []
ContextMedications ==
    IF "current_medications" \in DOMAIN patientContext
    THEN patientContext["current_medications"] ELSE << >>

addContextMedication ==
    updatePatientContext("current_medications", Append(ContextMedications, EmptyText))

updateContextMedication(index, value) ==
    updatePatientContext("current_medications",
                         [ContextMedications EXCEPT ![index] = value])

removeContextMedication(index) ==
    updatePatientContext("current_medications", RemoveAt(ContextMedications, index))

TypeAge ==
    \E t \in NumberTexts :
        updatePatientContext("age", NumberOrUndefined(parseInt(t))) /\ UNCHANGED exceptCQ
ChooseGender ==
    \E g \in GenderChoices :
        updatePatientContext("gender", StringOrUndefined(g)) /\ UNCHANGED exceptCQ
TypeWeight ==
    \E t \in NumberTexts :
        updatePatientContext("weight_kg", NumberOrUndefined(parseFloat(t))) /\ UNCHANGED exceptCQ
AddContextMed ==
    Len(ContextMedications) < MaxContextMeds /\ addContextMedication /\ UNCHANGED exceptCQ
TypeContextMed ==
    \E index \in 1..Len(ContextMedications), t \in ContextMedTexts :
        updateContextMedication(index, t) /\ UNCHANGED exceptCQ
RemoveContextMed ==
    \E index \in 1..Len(ContextMedications) :
        removeContextMedication(index) /\ UNCHANGED exceptCQ

TypeQuery == \E t \in QueryTexts : setQuery(t) /\ UNCHANGED exceptCQ
\* the "Recent Queries" buttons are rendered, for the first three history
\* entries, while the history is non-empty and the query text is empty
SelectRecent ==
    /\ Len(queryHistory) > 0
    /\ query = EmptyText
    /\ \E i \in 1..Len(Slice0(queryHistory, 3)) : handleQuerySelect(queryHistory[i])
    /\ UNCHANGED exceptCQ
\* the "Clear Form" button is rendered while the query text is non-empty
ClickClear == query # EmptyText /\ clearForm /\ UNCHANGED exceptCQ
\* the form is submitted through its submit button only while that is enabled
SubmitForm == ~SubmitDisabled /\ handleSubmit /\ UNCHANGED exceptCQ
QueryOk == \E i \in 1..Len(submitCalls), r \in Responses : SubmitResolved(i, r) /\ UNCHANGED exceptCQ
QueryFail == \E i \in 1..Len(submitCalls) : SubmitRejected(i) /\ UNCHANGED exceptCQ

----------------------------------------------------------------------------
(* DrugInteractions view *)

\* longest medication list the model grows
MaxMeds == 3

\* what the user can type into a medication input
MedTexts == { << >>, <<"a">>, <<" ", "b">> }

\* what the user can type where blank entries of both kinds matter
FormMedTexts == { << >>, <<" ">>, <<"a">>, <<" ", "b">> }

\* what the inputs hold when checkInteractions is exercised on its own
HandlerMedTexts == { << >>, <<" ">>, <<"a">> }

MinMedsMsg == "Please enter at least 2 medications to check for interactions"
InteractionsFailedMsg == "Failed to check drug interactions"
\* message of the error a rejected fetch() or json() carries
FetchErrorMsg == "Failed to fetch"

NonBlank_NoTrim(med) == med # EmptyText

\* the predicate of medications.filter((med) => med.trim() !== "")
NonBlank(med) == Trim(med) # EmptyText

ValidMedications(meds) == SelectSeq(meds, NonBlank)

CheckDisabled_NoLoading == Len(ValidMedications(medications)) < 2

\* disabled attribute of the "Check Drug Interactions" button
CheckDisabled == loading \/ Len(ValidMedications(medications)) < 2

InteractionsRequest(meds) == [method |-> "POST", path |-> "/drugs/interactions", arg |-> meds]
SummaryRequest(med) == [method |-> "GET", path |-> "/drugs/summary", arg |-> med]

\* bodies the backend may return for POST /drugs/interactions
InteractionLists(meds) ==
    { << >>, << [drug1 |-> meds[1], drug2 |-> meds[2], severity |-> "major"] >> }

\* body the backend returns for GET /drugs/summary?drug_name=med
DrugSummaryOf(med) == [name |-> med]

addMedication ==
    /\ Len(medications) < MaxMeds
    /\ medications' = Append(medications, EmptyText)
    /\ checked' = << >>
    /\ UNCHANGED <<interactions, drugSummaries, loading, diError, checks>>

removeMedication_NoFloor(index) ==
    /\ index \in 1..Len(medications)
    /\ medications' = RemoveAt(medications, index)
    /\ checked' = << >>
    /\ UNCHANGED <<interactions, drugSummaries, loading, diError, checks>>

removeMedication(index) ==
    /\ index \in 1..Len(medications)
    /\ medications' = IF Len(medications) > 1 THEN RemoveAt(medications, index) ELSE medications
    /\ checked' = << >>
    /\ UNCHANGED <<interactions, drugSummaries, loading, diError, checks>>

updateMedication(index, value) ==
    /\ index \in 1..Len(medications)
    /\ medications' = [medications EXCEPT ![index] = value]
    /\ checked' = << >>
    /\ UNCHANGED <<interactions, drugSummaries, loading, diError, checks>>

checkInteractions_EagerSummaries ==
    LET validMedications == ValidMedications(medications) IN
    /\ checked' = << >>
    /\ IF Len(validMedications) < 2
       THEN /\ diError' = MinMedsMsg
            /\ UNCHANGED <<medications, interactions, drugSummaries, loading, checks>>
       ELSE /\ loading' = TRUE
            /\ diError' = NULL
            /\ checks' = Append(checks,
                   [ validMedications |-> validMedications,
                     awaiting |-> "interactions",
                     summaries |-> << >>,
                     requests |-> << InteractionsRequest(validMedications),
                                     SummaryRequest(validMedications[1]) >>,
                     settleOrder |-> << >> ])
            /\ UNCHANGED <<medications, interactions, drugSummaries>>

\* checkInteractions up to its first await
checkInteractions ==
    LET validMedications == ValidMedications(medications) IN
    /\ checked' = << >>
    /\ IF Len(validMedications) < 2
       THEN /\ diError' = MinMedsMsg
            /\ UNCHANGED <<medications, interactions, drugSummaries, loading, checks>>
       ELSE /\ loading' = TRUE
            /\ diError' = NULL
            /\ checks' = Append(checks,
                   [ validMedications |-> validMedications,
                     awaiting |-> "interactions",
                     summaries |-> << >>,
                     requests |-> << InteractionsRequest(validMedications) >>,
                     settleOrder |-> << >> ])
            /\ UNCHANGED <<medications, interactions, drugSummaries>>

\* summaries.filter(Boolean), summaries being what Promise.all resolved to:
\* per medication, in medication order, the parsed body or null
RECURSIVE SummariesKept(_, _)
SummariesKept(meds, results) ==
    IF meds = << >> THEN << >>
    ELSE (IF Head(results) = "json" THEN << DrugSummaryOf(Head(meds)) >> ELSE << >>)
         \o SummariesKept(Tail(meds), Tail(results))

RECURSIVE SummaryRequests(_)
\* validMedications.map(async (med) => fetch(...)): one request per
\* medication, issued in order
SummaryRequests(meds) ==
    IF meds = << >> THEN << >>
    ELSE << SummaryRequest(Head(meds)) >> \o SummaryRequests(Tail(meds))

\* the interactions fetch resolved 2xx and its body parsed:
\* setInteractions(data), then the summary fan-out up to await Promise.all
InteractionsResolved(k, data) ==
    /\ k \in 1..Len(checks)
    /\ checks[k].awaiting = "interactions"
    /\ interactions' = data
    /\ checks' = [checks EXCEPT
          ![k].awaiting = "summaries",
          ![k].summaries = [i \in 1..Len(checks[k].validMedications) |-> "pending"],
          ![k].requests = @ \o SummaryRequests(checks[k].validMedications)]
    /\ checked' = << >>
    /\ UNCHANGED <<medications, drugSummaries, loading, diError>>

\* the interactions fetch rejected, resolved non-2xx, or its body did not
\* parse: catch, then finally
InteractionsFailed(k, message) ==
    /\ k \in 1..Len(checks)
    /\ checks[k].awaiting = "interactions"
    /\ diError' = message
    /\ loading' = FALSE
    /\ checks' = RemoveAt(checks, k)
    /\ checked' = << [check |-> checks[k], outcome |-> "interactionsFailed"] >>
    /\ UNCHANGED <<medications, interactions, drugSummaries>>

SummarySettled_RenderEach(k, i, result) ==
    /\ k \in 1..Len(checks)
    /\ checks[k].awaiting = "summaries"
    /\ i \in 1..Len(checks[k].summaries)
    /\ checks[k].summaries[i] = "pending"
    /\ LET after == [checks[k] EXCEPT !.summaries[i] = result,
                                      !.settleOrder = Append(@, i)]
           allResolved == \A j \in 1..Len(after.summaries) : after.summaries[j] # "pending"
       IN  IF result = "rejected"
           THEN /\ diError' = FetchErrorMsg
                /\ loading' = FALSE
                /\ checks' = RemoveAt(checks, k)
                /\ checked' = << [check |-> after, outcome |-> "summaryRejected"] >>
                /\ UNCHANGED <<medications, interactions, drugSummaries>>
           ELSE IF allResolved
           THEN /\ drugSummaries' = SummariesKept(after.validMedications, after.summaries)
                /\ loading' = FALSE
                /\ checks' = RemoveAt(checks, k)
                /\ checked' = << [check |-> after, outcome |-> "done"] >>
                /\ UNCHANGED <<medications, interactions, diError>>
           ELSE /\ checks' = [checks EXCEPT ![k] = after]
                /\ drugSummaries' = SummariesKept(after.validMedications, after.summaries)
                /\ checked' = << >>
                /\ UNCHANGED <<medications, interactions, loading, diError>>

\* one summary lookup settled: "json" (2xx, body parsed), "null" (non-2xx)
\* or "rejected" (fetch or json() rejected).  Promise.all rejects with the
\* first rejection (catch, finally) and resolves once every lookup has
\* resolved (setDrugSummaries, finally).
SummarySettled(k, i, result) ==
    /\ k \in 1..Len(checks)
    /\ checks[k].awaiting = "summaries"
    /\ i \in 1..Len(checks[k].summaries)
    /\ checks[k].summaries[i] = "pending"
    /\ LET after == [checks[k] EXCEPT !.summaries[i] = result,
                                      !.settleOrder = Append(@, i)]
           allResolved == \A j \in 1..Len(after.summaries) : after.summaries[j] # "pending"
       IN  IF result = "rejected"
           THEN /\ diError' = FetchErrorMsg
                /\ loading' = FALSE
                /\ checks' = RemoveAt(checks, k)
                /\ checked' = << [check |-> after, outcome |-> "summaryRejected"] >>
                /\ UNCHANGED <<medications, interactions, drugSummaries>>
           ELSE IF allResolved
           THEN /\ drugSummaries' = SummariesKept(after.validMedications, after.summaries)
                /\ loading' = FALSE
                /\ checks' = RemoveAt(checks, k)
                /\ checked' = << [check |-> after, outcome |-> "done"] >>
                /\ UNCHANGED <<medications, interactions, diError>>
           ELSE /\ checks' = [checks EXCEPT ![k] = after]
                /\ checked' = << >>
                /\ UNCHANGED <<medications, interactions, drugSummaries, loading, diError>>

NoInteractionsMessage_AnyEntries ==
    /\ Len(interactions) = 0
    /\ ~loading
    /\ Len(medications) >= 2

\* render condition of the "No Drug Interactions Found" message
NoInteractionsMessage ==
    /\ Len(interactions) = 0
    /\ ~loading
    /\ Len(ValidMedications(medications)) >= 2

AddMed == addMedication /\ UNCHANGED exceptDI
\* the remove buttons are rendered while the list has more than one entry
RemoveMed ==
    /\ Len(medications) > 1
    /\ \E index \in 1..Len(medications) : removeMedication(index)
    /\ UNCHANGED exceptDI
TypeMed ==
    /\ \E index \in 1..Len(medications), value \in MedTexts :
          value # medications[index] /\ updateMedication(index, value)
    /\ UNCHANGED exceptDI
\* the check is started through its button only while that is enabled
ClickCheck == ~CheckDisabled /\ checkInteractions /\ UNCHANGED exceptDI
InteractionsOk ==
    /\ \E k \in 1..Len(checks) :
          \E data \in InteractionLists(checks[k].validMedications) : InteractionsResolved(k, data)
    /\ UNCHANGED exceptDI
InteractionsFail ==
    /\ \E k \in 1..Len(checks), message \in {InteractionsFailedMsg, FetchErrorMsg} :
          InteractionsFailed(k, message)
    /\ UNCHANGED exceptDI
SummaryDone ==
    /\ \E k \in 1..Len(checks), i \in 1..MaxMeds, result \in {"json", "null", "rejected"} :
          SummarySettled(k, i, result)
    /\ UNCHANGED exceptDI

TypeFormMed ==
    /\ \E index \in 1..Len(medications), value \in FormMedTexts :
          value # medications[index] /\ updateMedication(index, value)
    /\ UNCHANGED exceptDI

\* removeMedication called whatever the list's length
CallRemoveMedication ==
    /\ \E index \in 1..Len(medications) : removeMedication(index)
    /\ UNCHANGED exceptDI

\* checkInteractions called whatever the button's state, as a test of the
\* handler calls it
TypeHandlerMed ==
    /\ \E index \in 1..Len(medications), value \in HandlerMedTexts :
          value # medications[index] /\ updateMedication(index, value)
    /\ UNCHANGED exceptDI
CallCheckInteractions ==
    /\ Len(ValidMedications(medications)) < 2 \/ Len(checks) < MaxInFlight
    /\ checkInteractions
    /\ UNCHANGED exceptDI

----------------------------------------------------------------------------
(* GuidelinesExplorer *)

\* the most handler invocations of one view pending at once
MaxPending == 2

GuidelineSearchTexts == { << >>, <<" ">>, <<"a">> }

specialties ==
    <<"cardiology", "endocrinology", "emergency_medicine", "infectious_disease", "neurology">>

\* the options of the specialty select that are chosen: "All Specialties"
\* (value "") and the first specialty
SpecialtyChoices == {"", specialties[1]}

GuidelineMaxResults == 20

\* a parsed JSON value, tagged with what it is
Json(type, items) == [type |-> type, items |-> items]

\* a path is the sequence of its segments; an optional value is a sequence of
\* length 0 or 1
GetRequest(path) == [method |-> "GET", path |-> path, body |-> << >>]
PostRequest(path, body) == [method |-> "POST", path |-> path, body |-> << body >>]

searchGuidelines(q, specialty) ==
    PostRequest(<<"guidelines", "search">>,
                [query |-> q, specialty |-> specialty, max_results |-> GuidelineMaxResults])
getGuideline(id) == GetRequest(<<"guidelines", id>>)
getGuidelinesBySpecialty(specialty) == GetRequest(<<"guidelines", "specialty", specialty>>)
getDatabaseStats == GetRequest(<<"guidelines", "stats", "database">>)

\* guidelinesAPI returns response.json() without looking at response.ok: a
\* non-2xx response with a JSON body resolves to that body
ErrorBody == Json("error", << >>)
GuidelineLists == { Json("array", <<"g1">>), Json("array", <<"g1", "g2">>) }
GuidelineListBodies == GuidelineLists \cup {ErrorBody}
GuidelineBodies(id) == { Json("guideline", <<id>>), ErrorBody }
DatabaseStats == << "stats" >>

GECall(handler, requests) == [handler |-> handler, requests |-> requests, overtaken |-> FALSE]

\* the useEffect of the mounted component
loadInitialDataCall ==
    GECall("loadInitialData", << searchGuidelines(EmptyText, << >>), getDatabaseStats >>)

\* the state slot a pending invocation writes when it resolves
GESlot(call) ==
    IF call.handler = "handleGuidelineSelect" THEN "selectedGuideline" ELSE "guidelines"

\* call k has settled, slots[i] being the slot call i writes: the invocations
\* issued before it that write the same slot and are still pending have been
\* overtaken
SettleAt(calls, k, slots) ==
    RemoveAt([ i \in 1..Len(calls) |->
                 IF i < k /\ slots[i] = slots[k]
                 THEN [ calls[i] EXCEPT !.overtaken = TRUE ]
                 ELSE calls[i] ], k)

\* guidelines.map and selectedGuideline.patient_populations.length throw on a
\* value of another shape; no error boundary catches it
GuidelinesRenderThrows ==
    \/ guidelines.type # "array"
    \/ selectedGuideline # << >> /\ selectedGuideline[1].type # "guideline"

GuidelinesShown == currentPage = "guidelines-explorer" /\ ~GuidelinesRenderThrows

setSearchQuery(value) ==
    /\ geSearchQuery' = value
    /\ geSettled' = << >>
    /\ UNCHANGED <<guidelines, selectedGuideline, selectedSpecialty, geLoading, geStats, geCalls>>

setSelectedSpecialty(value) ==
    /\ selectedSpecialty' = value
    /\ geSettled' = << >>
    /\ UNCHANGED <<guidelines, selectedGuideline, geSearchQuery, geLoading, geStats, geCalls>>

handleSearch_AlwaysFullText ==
    /\ geSettled' = << >>
    /\ IF Trim(geSearchQuery) = EmptyText /\ selectedSpecialty = ""
       THEN UNCHANGED <<geLoading, geCalls>>
       ELSE /\ geLoading' = TRUE
            /\ geCalls' = Append(geCalls, GECall("handleSearch",
                              << searchGuidelines(geSearchQuery, << selectedSpecialty >>) >>))
    /\ UNCHANGED <<guidelines, selectedGuideline, geSearchQuery, selectedSpecialty, geStats>>

\* up to the first await
handleSearch ==
    /\ geSettled' = << >>
    /\ IF Trim(geSearchQuery) = EmptyText /\ selectedSpecialty = ""
       THEN UNCHANGED <<geLoading, geCalls>>
       ELSE /\ geLoading' = TRUE
            /\ geCalls' = Append(geCalls, GECall("handleSearch",
                              << IF selectedSpecialty # ""
                                 THEN getGuidelinesBySpecialty(selectedSpecialty)
                                 ELSE searchGuidelines(geSearchQuery, << selectedSpecialty >>) >>))
    /\ UNCHANGED <<guidelines, selectedGuideline, geSearchQuery, selectedSpecialty, geStats>>

\* up to the await
handleGuidelineSelect(id) ==
    /\ geSettled' = << >>
    /\ geLoading' = TRUE
    /\ geCalls' = Append(geCalls, GECall("handleGuidelineSelect", << getGuideline(id) >>))
    /\ UNCHANGED <<guidelines, selectedGuideline, geSearchQuery, selectedSpecialty, geStats>>

GEResolved_LatestIssuedOnly(k, body) ==
    LET call == geCalls[k]
        stale == \E i \in (k + 1)..Len(geCalls) : GESlot(geCalls[i]) = GESlot(call)
    IN  /\ geCalls' = SettleAt(geCalls, k, [ i \in 1..Len(geCalls) |-> GESlot(geCalls[i]) ])
        /\ geSettled' = << [call |-> call, outcome |-> "resolved", data |-> << body >>] >>
        /\ guidelines' = IF GESlot(call) = "guidelines" /\ ~stale THEN body ELSE guidelines
        /\ selectedGuideline' =
               IF GESlot(call) = "selectedGuideline" /\ ~stale THEN << body >> ELSE selectedGuideline
        /\ geStats' = IF call.handler = "loadInitialData" THEN DatabaseStats ELSE geStats
        /\ geLoading' = IF call.handler = "loadInitialData" THEN geLoading ELSE FALSE
        /\ UNCHANGED <<geSearchQuery, selectedSpecialty>>

\* the awaited promise of call k fulfils with body: the rest of the try block
\* and the finally block
GEResolved(k, body) ==
    LET call == geCalls[k]
    IN  /\ geCalls' = SettleAt(geCalls, k, [ i \in 1..Len(geCalls) |-> GESlot(geCalls[i]) ])
        /\ geSettled' = << [call |-> call, outcome |-> "resolved", data |-> << body >>] >>
        /\ guidelines' = IF GESlot(call) = "guidelines" THEN body ELSE guidelines
        /\ selectedGuideline' =
               IF GESlot(call) = "selectedGuideline" THEN << body >> ELSE selectedGuideline
        /\ geStats' = IF call.handler = "loadInitialData" THEN DatabaseStats ELSE geStats
        /\ geLoading' = IF call.handler = "loadInitialData" THEN geLoading ELSE FALSE
        /\ UNCHANGED <<geSearchQuery, selectedSpecialty>>

\* the awaited promise of call k rejects (the fetch fails, or the body is not
\* JSON): console.error in the catch block, then the finally block
GERejected(k) ==
    LET call == geCalls[k]
    IN  /\ geCalls' = RemoveAt(geCalls, k)
        /\ geSettled' = << [call |-> call, outcome |-> "rejected", data |-> << >>] >>
        /\ geLoading' = IF call.handler = "loadInitialData" THEN geLoading ELSE FALSE
        /\ UNCHANGED <<guidelines, selectedGuideline, geSearchQuery, selectedSpecialty, geStats>>

TypeGuidelineSearch ==
    /\ GuidelinesShown
    /\ \E t \in GuidelineSearchTexts : setSearchQuery(t)
    /\ UNCHANGED exceptGE

ChooseSpecialty ==
    /\ GuidelinesShown
    /\ \E s \in SpecialtyChoices : setSelectedSpecialty(s)
    /\ UNCHANGED exceptGE

\* Enter in the search input: not held back while loading
EnterGuidelineSearch ==
    /\ GuidelinesShown
    /\ Len(geCalls) < MaxPending
    /\ handleSearch
    /\ UNCHANGED exceptGE

\* the Search button is disabled while loading
ClickGuidelineSearch ==
    /\ GuidelinesShown
    /\ ~geLoading
    /\ Len(geCalls) < MaxPending
    /\ handleSearch
    /\ UNCHANGED exceptGE

\* a click on an entry of the rendered list
ClickGuideline ==
    /\ GuidelinesShown
    /\ Len(geCalls) < MaxPending
    /\ \E i \in 1..Len(guidelines.items) : handleGuidelineSelect(guidelines.items[i])
    /\ UNCHANGED exceptGE

GuidelineFetchOk ==
    /\ GuidelinesShown
    /\ \E k \in 1..Len(geCalls) :
         \E body \in IF GESlot(geCalls[k]) = "guidelines"
                     THEN GuidelineListBodies
                     ELSE GuidelineBodies(geCalls[k].requests[1].path[2]) :
            GEResolved(k, body)
    /\ UNCHANGED exceptGE

GuidelineFetchFail ==
    /\ GuidelinesShown
    /\ \E k \in 1..Len(geCalls) : GERejected(k)
    /\ UNCHANGED exceptGE

----------------------------------------------------------------------------
(* KnowledgeRepository *)

DocumentSearchTexts == { << >>, <<"a">> }

\* the filter that is changed, and the options of its select that are chosen
FilterFields == {"specialty"}
FilterChoices == {"", "cardiology"}

InitialFilters ==
    [specialty |-> "", document_type |-> "", evidence_level |-> "", access_level |-> ""]

DocumentMaxResults == 50

ExportFormats == {"bibtex", "apa"}

SelectDocumentsMsg == "Please select documents to export"

\* Array.prototype.join(",")
RECURSIVE Join(_)
Join(ids) ==
    IF Len(ids) <= 1 THEN ids ELSE << Head(ids), "," >> \o Join(Tail(ids))

\* a GET request with query parameters
GetRequestWith(path, params) == [method |-> "GET", path |-> path, body |-> << params >>]

searchDocumentsRequest(searchRequest) ==
    PostRequest(<<"knowledge-repository", "search">>, searchRequest)
exportBibliographyRequest(documentIds, format) ==
    GetRequestWith(<<"knowledge-repository", "export", "bibliography">>,
                   [document_ids |-> Join(documentIds), format |-> format])
getOverview == GetRequest(<<"knowledge-repository">>)
getQualityReport == GetRequest(<<"knowledge-repository", "quality", "report">>)

\* search results, by document_id: a result lists a document once
DocumentLists == { <<"d1", "d2">>, <<"d2">> }
RepositoryStats == << "stats" >>
Bibliography == << "bibliography" >>

KRCall(handler, requests) == [handler |-> handler, requests |-> requests, overtaken |-> FALSE]

\* the useEffect of the mounted component
loadRepositoryDataCall == KRCall("loadRepositoryData", << getOverview, getQualityReport >>)

KRSlot(call) == call.handler

\* the loader replaces the page while loading && !stats
RepositoryShown == currentPage = "knowledge-base" /\ ~(krLoading /\ krStats = << >>)

setRepositoryQuery(value) ==
    /\ krSearchQuery' = value
    /\ alertMessage' = NULL
    /\ krSettled' = << >>
    /\ UNCHANGED <<documents, filters, krLoading, krStats, searchLoading, selectedDocuments,
                   krCalls>>

setFilters(field, value) ==
    /\ filters' = [filters EXCEPT ![field] = value]
    /\ alertMessage' = NULL
    /\ krSettled' = << >>
    /\ UNCHANGED <<documents, krSearchQuery, krLoading, krStats, searchLoading,
                   selectedDocuments, krCalls>>

\* up to the await
searchDocuments ==
    /\ searchLoading' = TRUE
    /\ krCalls' = Append(krCalls, KRCall("searchDocuments",
           << searchDocumentsRequest(
                  [query |-> krSearchQuery, specialty |-> filters.specialty,
                   document_type |-> filters.document_type,
                   evidence_level |-> filters.evidence_level,
                   access_level |-> filters.access_level,
                   max_results |-> DocumentMaxResults]) >>))
    /\ alertMessage' = NULL
    /\ krSettled' = << >>
    /\ UNCHANGED <<documents, krSearchQuery, filters, krLoading, krStats, selectedDocuments>>

\* up to the await
exportBibliography(format) ==
    /\ IF selectedDocuments = << >>
       THEN /\ alertMessage' = SelectDocumentsMsg
            /\ UNCHANGED krCalls
       ELSE /\ alertMessage' = NULL
            /\ krCalls' = Append(krCalls, KRCall("exportBibliography",
                              << exportBibliographyRequest(selectedDocuments, format) >>))
    /\ krSettled' = << >>
    /\ UNCHANGED <<documents, krSearchQuery, filters, krLoading, krStats, searchLoading,
                   selectedDocuments>>

setSelectedDocuments(ids) ==
    /\ selectedDocuments' = ids
    /\ alertMessage' = NULL
    /\ krSettled' = << >>
    /\ UNCHANGED <<documents, krSearchQuery, filters, krLoading, krStats, searchLoading, krCalls>>

toggleDocumentSelection_AlwaysAppend(docId) ==
    setSelectedDocuments(Append(selectedDocuments, docId))

toggleDocumentSelection(docId) ==
    setSelectedDocuments(
        IF Includes(selectedDocuments, docId)
        THEN SelectSeq(selectedDocuments, LAMBDA id : id # docId)
        ELSE Append(selectedDocuments, docId))

KRResolved_ClearAfterExport(k, data) ==
    LET call == krCalls[k]
    IN  /\ krCalls' = SettleAt(krCalls, k, [ i \in 1..Len(krCalls) |-> KRSlot(krCalls[i]) ])
        /\ krSettled' = << [call |-> call, outcome |-> "resolved", data |-> data] >>
        /\ alertMessage' = NULL
        /\ documents' = IF call.handler = "searchDocuments" THEN data ELSE documents
        /\ searchLoading' = IF call.handler = "searchDocuments" THEN FALSE ELSE searchLoading
        /\ krStats' = IF call.handler = "loadRepositoryData" THEN data ELSE krStats
        /\ krLoading' = IF call.handler = "loadRepositoryData" THEN FALSE ELSE krLoading
        /\ selectedDocuments' =
               IF call.handler = "exportBibliography" THEN << >> ELSE selectedDocuments
        /\ UNCHANGED <<krSearchQuery, filters>>

\* the awaited promise of call k fulfils with data: the rest of the try block
\* and the finally block (an export ends in the download of the bibliography)
KRResolved(k, data) ==
    LET call == krCalls[k]
    IN  /\ krCalls' = SettleAt(krCalls, k, [ i \in 1..Len(krCalls) |-> KRSlot(krCalls[i]) ])
        /\ krSettled' = << [call |-> call, outcome |-> "resolved", data |-> data] >>
        /\ alertMessage' = NULL
        /\ documents' = IF call.handler = "searchDocuments" THEN data ELSE documents
        /\ searchLoading' = IF call.handler = "searchDocuments" THEN FALSE ELSE searchLoading
        /\ krStats' = IF call.handler = "loadRepositoryData" THEN data ELSE krStats
        /\ krLoading' = IF call.handler = "loadRepositoryData" THEN FALSE ELSE krLoading
        /\ UNCHANGED <<krSearchQuery, filters, selectedDocuments>>

\* the awaited promise of call k rejects (axios rejects on a network error and
\* on a non-2xx status): console.error in the catch block, then the finally block
KRRejected(k) ==
    LET call == krCalls[k]
    IN  /\ krCalls' = RemoveAt(krCalls, k)
        /\ krSettled' = << [call |-> call, outcome |-> "rejected", data |-> << >>] >>
        /\ alertMessage' = NULL
        /\ searchLoading' = IF call.handler = "searchDocuments" THEN FALSE ELSE searchLoading
        /\ krLoading' = IF call.handler = "loadRepositoryData" THEN FALSE ELSE krLoading
        /\ UNCHANGED <<documents, krSearchQuery, filters, krStats, selectedDocuments>>

TypeDocumentSearch ==
    /\ RepositoryShown
    /\ \E t \in DocumentSearchTexts : setRepositoryQuery(t)
    /\ UNCHANGED exceptKR

ChangeFilter ==
    /\ RepositoryShown
    /\ \E field \in FilterFields, value \in FilterChoices : setFilters(field, value)
    /\ UNCHANGED exceptKR

\* Enter in the search input: not held back while a search is loading
EnterDocumentSearch ==
    /\ RepositoryShown
    /\ Len(krCalls) < MaxPending
    /\ searchDocuments
    /\ UNCHANGED exceptKR

\* the Search button is disabled while a search is loading
ClickDocumentSearch ==
    /\ RepositoryShown
    /\ ~searchLoading
    /\ Len(krCalls) < MaxPending
    /\ searchDocuments
    /\ UNCHANGED exceptKR

\* the checkbox of an entry of the rendered results
ToggleDocument ==
    /\ RepositoryShown
    /\ \E i \in 1..Len(documents) : toggleDocumentSelection(documents[i])
    /\ UNCHANGED exceptKR

\* Select All and Clear are rendered with the results
SelectAllDocuments ==
    /\ RepositoryShown
    /\ documents # << >>
    /\ setSelectedDocuments(documents)
    /\ UNCHANGED exceptKR

ClearSelection ==
    /\ RepositoryShown
    /\ documents # << >>
    /\ setSelectedDocuments(<< >>)
    /\ UNCHANGED exceptKR

\* the export buttons are rendered while something is selected
ClickExport ==
    /\ RepositoryShown
    /\ selectedDocuments # << >>
    /\ Len(krCalls) < MaxPending
    /\ \E format \in ExportFormats : exportBibliography(format)
    /\ UNCHANGED exceptKR

RepositoryFetchOk ==
    /\ currentPage = "knowledge-base"
    /\ \E k \in 1..Len(krCalls) :
         \E data \in CASE krCalls[k].handler = "searchDocuments" -> DocumentLists
                       [] krCalls[k].handler = "exportBibliography" -> {Bibliography}
                       [] OTHER -> {RepositoryStats} :
            KRResolved(k, data)
    /\ UNCHANGED exceptKR

RepositoryFetchFail ==
    /\ currentPage = "knowledge-base"
    /\ \E k \in 1..Len(krCalls) : KRRejected(k)
    /\ UNCHANGED exceptKR

----------------------------------------------------------------------------
(* Severity and evidence-level badges *)

SeverityTexts ==
    {"minor", "moderate", "major", "contraindicated", "MAJOR", "Minor", "severe", "unknown",
     "critical", ""}

EvidenceTexts ==
    { <<"A">>, <<"B">>, <<"C">>, <<"D">>, <<"a">>, <<"b">>, <<"c">>, <<"d">>, <<"E">>, <<"e">>,
      << >>, <<"A", "+">> }

UpperChar(c) ==
    CASE c = "a" -> "A" [] c = "b" -> "B" [] c = "c" -> "C" [] c = "d" -> "D" [] c = "e" -> "E"
      [] OTHER -> c

\* String.prototype.toUpperCase
toUpperCase(s) == [ i \in 1..Len(s) |-> UpperChar(s[i]) ]

\* DrugInteractions
getSeverityColor(severity) ==
    CASE severity = "minor" -> "text-yellow-600 bg-yellow-50 border-yellow-200"
      [] severity = "moderate" -> "text-orange-600 bg-orange-50 border-orange-200"
      [] severity = "major" -> "text-red-600 bg-red-50 border-red-200"
      [] severity = "contraindicated" -> "text-red-800 bg-red-100 border-red-300"
      [] OTHER -> "text-gray-600 bg-gray-50 border-gray-200"

interactionBadge_DefaultError(severity) ==
    IF severity = "contraindicated" THEN "badge-critical"
    ELSE IF severity = "major" THEN "badge-error"
    ELSE IF severity = "moderate" THEN "badge-warning"
    ELSE "badge-error"

\* ClinicalQuery: the badge of a drug interaction of the response
interactionBadge(severity) ==
    IF severity = "contraindicated" THEN "badge-critical"
    ELSE IF severity = "major" THEN "badge-error"
    ELSE IF severity = "moderate" THEN "badge-warning"
    ELSE "badge-gray"

\* ClinicalQuery: the badge of a recommendation of the response
recommendationBadge(evidence_level) ==
    IF evidence_level = <<"A">> THEN "badge-success"
    ELSE IF evidence_level = <<"B">> THEN "badge-warning"
    ELSE "badge-error"

\* GuidelinesExplorer.getEvidenceLevelColor
guidelinesEvidenceLevelColor(level) ==
    CASE toUpperCase(level) = <<"A">> -> "bg-green-100 text-green-800"
      [] toUpperCase(level) = <<"B">> -> "bg-yellow-100 text-yellow-800"
      [] toUpperCase(level) = <<"C">> -> "bg-red-100 text-red-800"
      [] OTHER -> "bg-gray-100 text-gray-800"

\* KnowledgeRepository.getEvidenceLevelColor
repositoryEvidenceLevelColor(level) ==
    CASE toUpperCase(level) = <<"A">> -> "bg-green-100 text-green-800"
      [] toUpperCase(level) = <<"B">> -> "bg-blue-100 text-blue-800"
      [] toUpperCase(level) = <<"C">> -> "bg-yellow-100 text-yellow-800"
      [] toUpperCase(level) = <<"D">> -> "bg-red-100 text-red-800"
      [] OTHER -> "bg-gray-100 text-gray-800"

\* an interaction is rendered by the interaction checker and by the clinical
\* query response
RenderInteraction ==
    /\ \E s \in SeverityTexts :
         severityBadge' = << [severity |-> s, checker |-> getSeverityColor(s),
                              query |-> interactionBadge(s)] >>
    /\ UNCHANGED <<cqVars, diVars, appVars, geVars, krVars, evidenceBadge>>

\* an evidence level is rendered by the clinical query response, the
\* guidelines explorer and the knowledge repository
RenderEvidenceLevel ==
    /\ \E l \in EvidenceTexts :
         evidenceBadge' = << [level |-> l, query |-> recommendationBadge(l),
                              guidelines |-> guidelinesEvidenceLevelColor(l),
                              repository |-> repositoryEvidenceLevelColor(l)] >>
    /\ UNCHANGED <<cqVars, diVars, appVars, geVars, krVars, severityBadge>>

----------------------------------------------------------------------------
(* Specifications *)

InitCQ ==
    /\ query = EmptyText
    /\ patientContext = EmptyContext
    /\ isLoading = FALSE
    /\ response = NULL
    /\ cqError = NULL
    /\ queryHistory = << >>
    /\ submitCalls = << >>
    /\ settled = << >>

InitDI ==
    /\ medications = << EmptyText >>
    /\ interactions = << >>
    /\ drugSummaries = << >>
    /\ loading = FALSE
    /\ diError = NULL
    /\ checks = << >>
    /\ checked = << >>

InitGE(calls) ==
    /\ guidelines = Json("array", << >>)
    /\ selectedGuideline = << >>
    /\ geSearchQuery = EmptyText
    /\ selectedSpecialty = ""
    /\ geLoading = FALSE
    /\ geStats = << >>
    /\ geCalls = calls
    /\ geSettled = << >>

InitKR(calls) ==
    /\ documents = << >>
    /\ krSearchQuery = EmptyText
    /\ filters = InitialFilters
    /\ krLoading = TRUE
    /\ krStats = << >>
    /\ searchLoading = FALSE
    /\ selectedDocuments = << >>
    /\ alertMessage = NULL
    /\ krCalls = calls
    /\ krSettled = << >>

InitBadges == severityBadge = << >> /\ evidenceBadge = << >>

Pages == {"clinical-query", "drug-interactions", "guidelines-explorer", "knowledge-base"}

\* App renders the component of the current page only: that component is
\* freshly mounted (its useEffect has run), the others hold no state
Mounted(page) ==
    /\ currentPage = page
    /\ InitCQ
    /\ InitDI
    /\ InitGE(IF page = "guidelines-explorer" THEN << loadInitialDataCall >> ELSE << >>)
    /\ InitKR(IF page = "knowledge-base" THEN << loadRepositoryDataCall >> ELSE << >>)

\* the state in which the component of page has just been mounted
InitSidebar == sidebarOpen = FALSE /\ sidebarClosing = FALSE /\ closeTimers = << >>

InitOn(page) == Mounted(page) /\ InitSidebar /\ discarded = << >> /\ InitBadges

\* useState("clinical-query")
Init == InitOn("clinical-query")

\* the component of the current page holds something else than its state at
\* mount
PageEdited ==
    CASE currentPage = "clinical-query" -> ~InitCQ
      [] currentPage = "drug-interactions" -> ~InitDI
      [] currentPage = "guidelines-explorer" -> ~InitGE(<< loadInitialDataCall >>)
      [] OTHER -> ~InitKR(<< loadRepositoryDataCall >>)

setCurrentPage_KeepQuery(page) ==
    /\ page # currentPage
    /\ currentPage' = page
    /\ geCalls' = IF page = "guidelines-explorer" THEN << loadInitialDataCall >> ELSE << >>
    /\ krCalls' = IF page = "knowledge-base" THEN << loadRepositoryDataCall >> ELSE << >>
    /\ query' = query /\ patientContext' = EmptyContext /\ isLoading' = FALSE
    /\ response' = NULL /\ cqError' = NULL /\ queryHistory' = << >>
    /\ submitCalls' = << >> /\ settled' = << >>
    /\ medications' = << EmptyText >> /\ interactions' = << >> /\ drugSummaries' = << >>
    /\ loading' = FALSE /\ diError' = NULL /\ checks' = << >> /\ checked' = << >>
    /\ guidelines' = Json("array", << >>) /\ selectedGuideline' = << >>
    /\ geSearchQuery' = EmptyText /\ selectedSpecialty' = "" /\ geLoading' = FALSE
    /\ geStats' = << >> /\ geSettled' = << >>
    /\ documents' = << >> /\ krSearchQuery' = EmptyText /\ filters' = InitialFilters
    /\ krLoading' = TRUE /\ krStats' = << >> /\ searchLoading' = FALSE
    /\ selectedDocuments' = << >> /\ alertMessage' = NULL /\ krSettled' = << >>

\* setCurrentPage(item.page) to another page: the component of the page left is
\* unmounted, and what its pending promises do afterwards reaches no state;
\* the component of the new page is mounted
setCurrentPage(page) ==
    /\ page # currentPage
    /\ currentPage' = page
    /\ geCalls' = IF page = "guidelines-explorer" THEN << loadInitialDataCall >> ELSE << >>
    /\ krCalls' = IF page = "knowledge-base" THEN << loadRepositoryDataCall >> ELSE << >>
    /\ query' = EmptyText /\ patientContext' = EmptyContext /\ isLoading' = FALSE
    /\ response' = NULL /\ cqError' = NULL /\ queryHistory' = << >>
    /\ submitCalls' = << >> /\ settled' = << >>
    /\ medications' = << EmptyText >> /\ interactions' = << >> /\ drugSummaries' = << >>
    /\ loading' = FALSE /\ diError' = NULL /\ checks' = << >> /\ checked' = << >>
    /\ guidelines' = Json("array", << >>) /\ selectedGuideline' = << >>
    /\ geSearchQuery' = EmptyText /\ selectedSpecialty' = "" /\ geLoading' = FALSE
    /\ geStats' = << >> /\ geSettled' = << >>
    /\ documents' = << >> /\ krSearchQuery' = EmptyText /\ filters' = InitialFilters
    /\ krLoading' = TRUE /\ krStats' = << >> /\ searchLoading' = FALSE
    /\ selectedDocuments' = << >> /\ alertMessage' = NULL /\ krSettled' = << >>

\* a render of the current page that throws takes the whole tree down
AppShown == ~(currentPage = "guidelines-explorer" /\ GuidelinesRenderThrows)

\* an entry of the desktop navigation
Navigate ==
    /\ AppShown
    /\ \E page \in Pages \ {currentPage} : setCurrentPage(page)
    /\ UNCHANGED <<sidebarVars, discarded, badgeVars>>

----------------------------------------------------------------------------
(* App: mobile sidebar *)

\* the most close timers pending at once
MaxTimers == 2

\* closeSidebar: the timer it starts is not cancelled by anything
closeSidebar ==
    /\ sidebarClosing' = TRUE
    /\ closeTimers' = Append(closeTimers, [stale |-> FALSE])
    /\ UNCHANGED sidebarOpen

openSidebar ==
    /\ sidebarOpen' = TRUE
    /\ sidebarClosing' = FALSE
    /\ closeTimers' = [ i \in 1..Len(closeTimers) |-> [stale |-> TRUE] ]

\* the callback of the oldest timer (all timers wait 300 ms, so they fire in
\* the order they were started)
CloseTimerFires ==
    /\ closeTimers # << >>
    /\ sidebarOpen' = FALSE
    /\ sidebarClosing' = FALSE
    /\ closeTimers' = Tail(closeTimers)
    /\ UNCHANGED <<cqVars, diVars, geVars, krVars, badgeVars, currentPage, discarded>>

\* the hamburger button: sidebarOpen ? closeSidebar() : openSidebar()
ToggleSidebar ==
    /\ AppShown
    /\ IF sidebarOpen THEN Len(closeTimers) < MaxTimers /\ closeSidebar ELSE openSidebar
    /\ UNCHANGED <<cqVars, diVars, geVars, krVars, badgeVars, currentPage, discarded>>

\* the overlay is rendered while sidebarOpen
ClickOverlay ==
    /\ AppShown
    /\ sidebarOpen
    /\ Len(closeTimers) < MaxTimers
    /\ closeSidebar
    /\ UNCHANGED <<cqVars, diVars, geVars, krVars, badgeVars, currentPage, discarded>>

\* the keydown listener is registered while sidebarOpen
PressEscape ==
    /\ AppShown
    /\ sidebarOpen
    /\ Len(closeTimers) < MaxTimers
    /\ closeSidebar
    /\ UNCHANGED <<cqVars, diVars, geVars, krVars, badgeVars, currentPage, discarded>>

\* an entry of the mobile menu, rendered while sidebarOpen:
\* setCurrentPage(item.page); closeSidebar()
MobileNavigate ==
    /\ AppShown
    /\ sidebarOpen
    /\ Len(closeTimers) < MaxTimers
    /\ closeSidebar
    /\ \E page \in Pages :
         IF page = currentPage
         THEN UNCHANGED <<cqVars, diVars, geVars, krVars, currentPage, discarded>>
         ELSE /\ setCurrentPage(page)
              /\ discarded' = IF PageEdited THEN << currentPage >> ELSE discarded
    /\ UNCHANGED badgeVars

\* handleSubmit called whatever the submit button's state, as a test of the
\* handler calls it
TypeHandlerQuery == \E t \in HandlerTexts : setQuery(t) /\ UNCHANGED exceptCQ
CallHandleSubmit ==
    /\ Trim(query) = EmptyText \/ Len(submitCalls) < MaxInFlight
    /\ handleSubmit
    /\ UNCHANGED exceptCQ

NextCQ == TypeQuery \/ SelectRecent \/ ClickClear \/ SubmitForm \/ QueryOk \/ QueryFail

\* the ClinicalQuery view driven through its rendered controls
SpecCQ == Init /\ [][NextCQ]_vars

NextCQHandler ==
    TypeHandlerQuery \/ SelectRecent \/ ClickClear \/ CallHandleSubmit \/ QueryOk \/ QueryFail

\* handleSubmit exercised on its own
SpecCQHandler == Init /\ [][NextCQHandler]_vars

ContextQueryTexts == { << >>, <<"a">> }
TypeContextQuery == \E t \in ContextQueryTexts : setQuery(t) /\ UNCHANGED exceptCQ

NextCQContext ==
    \/ TypeAge \/ ChooseGender \/ TypeWeight
    \/ AddContextMed \/ TypeContextMed \/ RemoveContextMed
    \/ TypeContextQuery \/ ClickClear \/ SubmitForm \/ QueryOk \/ QueryFail

\* the ClinicalQuery view with its patient-context inputs
SpecCQContext == Init /\ [][NextCQContext]_vars

NextDI ==
    AddMed \/ RemoveMed \/ TypeMed \/ ClickCheck \/ InteractionsOk \/ InteractionsFail
        \/ SummaryDone

\* the DrugInteractions view driven through its rendered controls
SpecDI == InitOn("drug-interactions") /\ [][NextDI]_vars

NextDIHandler ==
    AddMed \/ CallRemoveMedication \/ TypeHandlerMed \/ CallCheckInteractions
        \/ InteractionsOk \/ InteractionsFail \/ SummaryDone

\* the handlers of the DrugInteractions view exercised on their own
SpecDIHandler == InitOn("drug-interactions") /\ [][NextDIHandler]_vars

NextDIForm ==
    AddMed \/ RemoveMed \/ TypeFormMed \/ ClickCheck \/ InteractionsOk \/ InteractionsFail
        \/ SummaryDone

\* the DrugInteractions view driven through its rendered controls, with
\* whitespace-only entries among those typed
SpecDIForm == InitOn("drug-interactions") /\ [][NextDIForm]_vars

NextExplorers ==
    \/ Navigate
    \/ TypeGuidelineSearch \/ ChooseSpecialty \/ EnterGuidelineSearch \/ ClickGuidelineSearch
    \/ ClickGuideline \/ GuidelineFetchOk \/ GuidelineFetchFail
    \/ TypeDocumentSearch \/ ChangeFilter \/ EnterDocumentSearch \/ ClickDocumentSearch
    \/ ToggleDocument \/ SelectAllDocuments \/ ClearSelection \/ ClickExport
    \/ RepositoryFetchOk \/ RepositoryFetchFail

\* the GuidelinesExplorer and KnowledgeRepository pages driven through their
\* rendered controls and the navigation
SpecExplorers == Init /\ [][NextExplorers]_vars

\* the controls of the ClinicalQuery page, rendered while it is the current page
ClinicalQueryPage ==
    /\ currentPage = "clinical-query"
    /\ TypeHandlerQuery \/ SelectRecent \/ ClickClear \/ SubmitForm \/ QueryOk \/ QueryFail

NextApp ==
    \/ Navigate \/ MobileNavigate
    \/ ToggleSidebar \/ ClickOverlay \/ PressEscape \/ CloseTimerFires
    \/ ClinicalQueryPage

\* App: navigation and the mobile sidebar, with the ClinicalQuery page in use
SpecApp == Init /\ [][NextApp]_vars

DrugInteractionsPage ==
    /\ currentPage = "drug-interactions"
    /\ \/ AddMed \/ RemoveMed \/ TypeHandlerMed \/ ClickCheck
       \/ InteractionsOk \/ InteractionsFail \/ SummaryDone

NextLive == Navigate \/ ClinicalQueryPage \/ DrugInteractionsPage

\* the two submitting views with every network call settling eventually: a
\* pending promise is settled by the network, whatever the user does
SpecLive ==
    /\ Init
    /\ [][NextLive]_vars
    /\ WF_vars(QueryOk \/ QueryFail)
    /\ WF_vars(InteractionsOk \/ InteractionsFail \/ SummaryDone)

NextBadges == RenderInteraction \/ RenderEvidenceLevel

\* the badge functions applied to the severities and evidence levels of what
\* is rendered
SpecBadges == Init /\ [][NextBadges]_vars

----------------------------------------------------------------------------
(* Claims about the ClinicalQuery view *)

IsBlank(s) == \A i \in 1..Len(s) : s[i] = " "

HasSettled == settled # << >>
SettledCall == settled[1].call

\* C2: submitting the form with an empty or whitespace-only query text
\* issues no request and sets the message 'Please enter a clinical query';
\* a request is issued, and the loading state entered, only from a query
\* text that is not blank.
C2_EmptyQueryRejected ==
    [][ /\ (handleSubmit /\ IsBlank(query)) =>
              /\ submitCalls' = submitCalls
              /\ isLoading' = isLoading
              /\ cqError' = "Please enter a clinical query"
        /\ (Len(submitCalls') > Len(submitCalls)) => ~IsBlank(query)
        /\ (isLoading' /\ ~isLoading) => ~IsBlank(query) ]_vars

C2_Witness ==
    /\ query = <<" ">>
    /\ cqError = "Please enter a clinical query"
    /\ submitCalls = << >>
    /\ ~isLoading

\* C3 as stated: when a submission fails, an error message is set and the
\* response displayed before that submission started is still displayed.
C3_PriorResponseKept ==
    (HasSettled /\ ~settled[1].ok) =>
        /\ cqError = QueryErrorMsg
        /\ response = SettledCall.shown

\* C3 amended: when a submission fails, an error message is set and no
\* response is displayed: the one displayed before was cleared when the
\* submission started and is not restored.
C3_FailureShowsErrorOnly ==
    (HasSettled /\ ~settled[1].ok) =>
        /\ cqError = "Error processing clinical query. Please try again."
        /\ response = NULL

C3_Witness ==
    /\ HasSettled
    /\ ~settled[1].ok
    /\ SettledCall.shown \in Responses
    /\ cqError # NULL

\* C4: after a successful submission the submitted (trimmed) text is the
\* first entry of the query history, also when it was already in the history.
C4_SubmittedQueryFirst ==
    (HasSettled /\ settled[1].ok) =>
        /\ queryHistory # << >>
        /\ Head(queryHistory) = SettledCall.query

\* C5: the query history never holds more than 5 entries.
C5_HistoryAtMostFive == Len(queryHistory) <= 5

C5_Witness ==
    /\ Len(queryHistory) = 5
    /\ HasSettled
    /\ settled[1].ok
    /\ Len(SettledCall.queryHistory) = 5
    /\ ~Includes(SettledCall.queryHistory, SettledCall.query)

\* C6: the query history never contains the same string twice.
C6_HistoryNoDuplicates ==
    \A i, j \in 1..Len(queryHistory) : i # j => queryHistory[i] # queryHistory[j]

C6_Witness ==
    /\ HasSettled
    /\ settled[1].ok
    /\ Includes(SettledCall.queryHistory, SettledCall.query)
    /\ Len(queryHistory) >= 2

\* C7: while a submission is in flight no second one is issued: at most one
\* /clinical/query request is outstanding at any time.
C7_SingleFlight ==
    /\ Len(submitCalls) <= 1
    /\ isLoading <=> Len(submitCalls) = 1

C7_Witness ==
    /\ isLoading
    /\ Len(submitCalls) = 1
    /\ Trim(query) # EmptyText

----------------------------------------------------------------------------
(* Claims about the DrugInteractions view *)

NonBlankCount(meds) == Cardinality({ i \in 1..Len(meds) : ~IsBlank(meds[i]) })

HasChecked == checked # << >>
CheckedCall == checked[1].check

\* the checkInteractions invocations pending or just ended
LiveChecks == { checks[k] : k \in 1..Len(checks) } \cup { checked[j].check : j \in 1..Len(checked) }

SummaryRequestCount(c) ==
    Cardinality({ r \in 1..Len(c.requests) : c.requests[r].path = "/drugs/summary" })

InteractionsRequestCount(c) ==
    Cardinality({ r \in 1..Len(c.requests) : c.requests[r].path = "/drugs/interactions" })

\* the summaries of the lookups that succeeded, in medication order
SucceededInOrder(c) ==
    LET n == Len(c.validMedications)
        before(i) == Cardinality({ j \in 1..i : c.summaries[j] = "json" })
        count == before(n)
    IN  [ p \in 1..count |->
            [name |-> c.validMedications[
                CHOOSE i \in 1..n : c.summaries[i] = "json" /\ before(i) = p]] ]

\* C1: with fewer than 2 non-blank (after trimming) medication entries,
\* invoking the interaction check issues no request, sets the message
\* 'Please enter at least 2 medications to check for interactions' and does
\* not enter the loading state.
C1_TooFewMedications ==
    [][ /\ (checkInteractions /\ NonBlankCount(medications) < 2) =>
              /\ checks' = checks
              /\ loading' = loading
              /\ diError' = "Please enter at least 2 medications to check for interactions"
        /\ (Len(checks') > Len(checks)) => NonBlankCount(medications) >= 2 ]_vars

C1_Witness ==
    /\ diError = "Please enter at least 2 medications to check for interactions"
    /\ medications = << <<"a">>, <<" ">> >>
    /\ ~loading
    /\ checks = << >>

\* C8: when the interactions request of a check succeeded, a failed summary
\* lookup (non-2xx response or rejected fetch) is silently dropped: no error
\* message is set and the summaries of the lookups that succeeded are rendered.
C8_FailedLookupDropped ==
    ( /\ HasChecked
      /\ checked[1].outcome # "interactionsFailed"
      /\ \E i \in 1..Len(CheckedCall.summaries) :
            CheckedCall.summaries[i] \in {"null", "rejected"} )
    => /\ diError = NULL
       /\ drugSummaries = SucceededInOrder(CheckedCall)

\* C9: one invocation of the check with n non-blank medications issues
\* exactly one /drugs/interactions request and at most n /drugs/summary
\* requests, one per non-blank medication; the summary requests are issued
\* only after the interactions request succeeded, and none if it failed.
C9_RequestsPerCheck ==
    /\ \A c \in LiveChecks :
          LET n == Len(c.validMedications) IN
          /\ n >= 2
          /\ \A i \in 1..n : ~IsBlank(c.validMedications[i])
          /\ InteractionsRequestCount(c) = 1
          /\ c.requests[1].path = "/drugs/interactions"
          /\ c.requests[1].arg = c.validMedications
          /\ SummaryRequestCount(c) <= n
          /\ \A r \in 2..Len(c.requests) :
                /\ c.requests[r].path = "/drugs/summary"
                /\ c.requests[r].arg = c.validMedications[r - 1]
          /\ c.awaiting = "interactions" => SummaryRequestCount(c) = 0
          /\ c.awaiting = "summaries" => SummaryRequestCount(c) = n
    /\ (HasChecked /\ checked[1].outcome = "interactionsFailed") =>
          SummaryRequestCount(CheckedCall) = 0

C9_Witness ==
    /\ HasChecked
    /\ checked[1].outcome = "done"
    /\ Len(medications) = 3
    /\ CheckedCall.validMedications = << <<"a">>, <<" ", "b">> >>
    /\ Len(CheckedCall.requests) = 3

\* C10: the summary lookups of a check settle in any order; the displayed
\* summaries change only in the step in which the last lookup of the check
\* settles, never while some are pending, and then hold the succeeded
\* lookups' summaries in medication order.
C10_SummariesRenderedAtJoin ==
    [][ /\ (drugSummaries' # drugSummaries) =>
              /\ checked' # << >>
              /\ checked'[1].outcome = "done"
        /\ (checked' # << >> /\ checked'[1].outcome = "done") =>
              /\ \A i \in 1..Len(checked'[1].check.summaries) :
                    checked'[1].check.summaries[i] \in {"json", "null"}
              /\ Len(checked'[1].check.settleOrder) = Len(checked'[1].check.validMedications)
              /\ drugSummaries' = SucceededInOrder(checked'[1].check) ]_vars

C10_Witness ==
    /\ HasChecked
    /\ checked[1].outcome = "done"
    /\ CheckedCall.validMedications = << <<"a">>, <<" ", "b">> >>
    /\ CheckedCall.settleOrder = <<2, 1>>
    /\ drugSummaries = << [name |-> <<"a">>], [name |-> <<" ", "b">>] >>

RECURSIVE NonBlankEntries(_)
\* the entries of a medication list that hold something other than spaces,
\* in the order of the list
NonBlankEntries(meds) ==
    IF meds = << >> THEN << >>
    ELSE (IF IsBlank(Head(meds)) THEN << >> ELSE << Head(meds) >>)
         \o NonBlankEntries(Tail(meds))

\* C11: a check is started only while no check is in flight and at least 2
\* entries are non-blank; the /drugs/interactions request it issues carries
\* the non-blank entries (at least 2, none blank) in the order of the form.
C11_CheckStartGuard ==
    [][ Len(checks') > Len(checks) =>
          /\ ~loading
          /\ checks = << >>
          /\ NonBlankCount(medications) >= 2
          /\ checks'[1].requests =
                << [ method |-> "POST", path |-> "/drugs/interactions",
                     arg |-> NonBlankEntries(medications) ] >> ]_vars

C11_Witness ==
    /\ Len(checks) = 1
    /\ checks[1].awaiting = "interactions"
    /\ medications = << <<" ", "b">>, <<" ">>, <<"a">> >>
    /\ checks[1].requests[1].arg = << <<" ", "b">>, <<"a">> >>

\* C12: the 'no interactions found' message is rendered only while the
\* interactions list is empty, loading is false and at least two medication
\* entries are non-blank.
C12_NoInteractionsMessageGuard ==
    NoInteractionsMessage =>
        /\ interactions = << >>
        /\ loading = FALSE
        /\ NonBlankCount(medications) >= 2

C12_Witness ==
    /\ NoInteractionsMessage
    /\ HasChecked
    /\ checked[1].outcome = "done"
    /\ Len(medications) = 3
    /\ \E i \in 1..3 : medications[i] = <<" ">>

\* C13: the medication list always has at least 1 entry: it starts with one
\* blank entry, grows only by one blank entry appended, shrinks only by one
\* entry while it has more than one, and a remove on a one-entry list
\* changes nothing.
C13_MedicationFloor ==
    /\ medications = << << >> >>
    /\ [][ /\ Len(medications') >= 1
           /\ (Len(medications') > Len(medications)) =>
                 medications' = Append(medications, << >>)
           /\ (Len(medications') < Len(medications)) =>
                 /\ Len(medications) > 1
                 /\ Len(medications') = Len(medications) - 1
           /\ (Len(medications) = 1 /\ removeMedication(1)) =>
                 medications' = medications ]_vars

C13_Witness ==
    /\ Len(medications) = 1
    /\ drugSummaries # << >>
    /\ ~loading

----------------------------------------------------------------------------
(* Claims C14-C20 *)

GEHasSettled == geSettled # << >>
KRHasSettled == krSettled # << >>
PageKept == currentPage' = currentPage

\* a GuidelinesExplorer invocation that writes the guidelines list
WritesGuidelines(call) == call.handler \in {"loadInitialData", "handleSearch"}

\* C14: when requests that write the same view-state slot overlap (guideline
\* searches, guideline detail fetches, document searches), every response is
\* written to the slot in the step in which it resolves, whatever the order
\* of issue, and the slot of a mounted view changes in no other step: the
\* slot ends up holding the response that resolved last.
C14_LastResolvedWins ==
    [][ /\ (geSettled' # << >> /\ geSettled'[1].outcome = "resolved") =>
              IF WritesGuidelines(geSettled'[1].call)
              THEN guidelines' = geSettled'[1].data[1]
              ELSE selectedGuideline' = geSettled'[1].data
        /\ (krSettled' # << >> /\ krSettled'[1].outcome = "resolved"
                /\ krSettled'[1].call.handler = "searchDocuments") =>
              documents' = krSettled'[1].data
        /\ (PageKept /\ guidelines' # guidelines) =>
              /\ geSettled' # << >>
              /\ geSettled'[1].outcome = "resolved"
              /\ WritesGuidelines(geSettled'[1].call)
        /\ (PageKept /\ selectedGuideline' # selectedGuideline) =>
              /\ geSettled' # << >>
              /\ geSettled'[1].outcome = "resolved"
              /\ geSettled'[1].call.handler = "handleGuidelineSelect"
        /\ (PageKept /\ documents' # documents) =>
              /\ krSettled' # << >>
              /\ krSettled'[1].outcome = "resolved"
              /\ krSettled'[1].call.handler = "searchDocuments" ]_vars

\* a guideline search issued before another one resolved after it, and its
\* list replaced the list of the search issued later
C14_Witness ==
    /\ GEHasSettled
    /\ geSettled[1].call.handler = "handleSearch"
    /\ geSettled[1].call.overtaken
    /\ geSettled[1].outcome = "resolved"
    /\ geSettled[1].call.requests[1].method = "POST"
    /\ guidelines = Json("array", <<"g1", "g2">>)
    /\ geCalls = << >>

C14_WitnessDetail ==
    /\ GEHasSettled
    /\ geSettled[1].call.handler = "handleGuidelineSelect"
    /\ geSettled[1].call.overtaken
    /\ geSettled[1].call.requests[1].path = <<"guidelines", "g1">>
    /\ selectedGuideline = << Json("guideline", <<"g1">>) >>

C14_WitnessDocuments ==
    /\ KRHasSettled
    /\ krSettled[1].call.handler = "searchDocuments"
    /\ krSettled[1].call.overtaken
    /\ krSettled[1].call.requests[1].body[1].specialty = ""
    /\ filters.specialty = "cardiology"
    /\ documents = <<"d2">>

\* the error message each of the two explorer views shows: the
\* GuidelinesExplorer keeps no error state and renders no error element; the
\* only message of the KnowledgeRepository is its window.alert
GuidelinesMessage == NULL
RepositoryMessage == alertMessage

\* the request of the settled invocation failed in transport: its promise
\* rejected, or (fetch-based guidelinesAPI) it resolved with the body of a
\* non-2xx response
GEFailed ==
    /\ GEHasSettled
    /\ geSettled[1].call.handler \in {"handleSearch", "handleGuidelineSelect"}
    /\ \/ geSettled[1].outcome = "rejected"
       \/ geSettled[1].data = << ErrorBody >>

KRFailed ==
    /\ KRHasSettled
    /\ krSettled[1].call.handler \in {"searchDocuments", "exportBibliography"}
    /\ krSettled[1].outcome = "rejected"

\* C15: once a user-triggered request (clinical query, interaction check,
\* guideline search or detail, document search, bibliography export) has
\* failed in transport, the view shows the user an error message.
C15_FailureSurfaced ==
    /\ (HasSettled /\ ~settled[1].ok) => cqError # NULL
    /\ (HasChecked /\ checked[1].outcome = "interactionsFailed") => diError # NULL
    /\ GEFailed => GuidelinesMessage # NULL
    /\ KRFailed => RepositoryMessage # NULL

\* String.prototype.split(",") of the document_ids parameter
SplitComma(s) == SelectSeq(s, LAMBDA x : x # ",")

LastCall(calls) == calls[Len(calls)]
ExportIssued ==
    Len(krCalls') > Len(krCalls) /\ LastCall(krCalls').handler = "exportBibliography"

\* C16: an export request carries exactly the identifiers selected when it is
\* issued, in their order; neither issuing it nor its success or failure
\* changes the selection; while the view stays mounted the selection changes
\* only in a step that issues and settles no request, to the result of a
\* toggle of a listed document, to all listed documents, or to nothing.
C16_ExportKeepsSelection ==
    [][ /\ ExportIssued =>
              /\ SplitComma(LastCall(krCalls').requests[1].body[1].document_ids)
                     = selectedDocuments
              /\ selectedDocuments # << >>
              /\ selectedDocuments' = selectedDocuments
        /\ (krSettled' # << >> /\ krSettled'[1].call.handler = "exportBibliography") =>
              selectedDocuments' = selectedDocuments
        /\ (PageKept /\ selectedDocuments' # selectedDocuments) =>
              /\ krCalls' = krCalls
              /\ krSettled' = << >>
              /\ \/ selectedDocuments' = << >>
                 \/ selectedDocuments' = documents
                 \/ \E i \in 1..Len(documents) :
                      \/ /\ ~Includes(selectedDocuments, documents[i])
                         /\ selectedDocuments' = Append(selectedDocuments, documents[i])
                      \/ /\ Includes(selectedDocuments, documents[i])
                         /\ Len(selectedDocuments') = Len(selectedDocuments) - 1
                         /\ ~Includes(selectedDocuments', documents[i]) ]_vars

\* an export of two documents has succeeded and both are still selected
C16_Witness ==
    /\ KRHasSettled
    /\ krSettled[1].call.handler = "exportBibliography"
    /\ krSettled[1].outcome = "resolved"
    /\ krSettled[1].call.requests[1].body[1].document_ids = <<"d2", ",", "d1">>
    /\ selectedDocuments = <<"d2", "d1">>

C16_WitnessFailed ==
    /\ KRHasSettled
    /\ krSettled[1].call.handler = "exportBibliography"
    /\ krSettled[1].outcome = "rejected"
    /\ selectedDocuments = <<"d1", "d2">>

\* C17: the selection for bibliography export never holds the same document
\* identifier twice.
C17_SelectionIsSet ==
    \A i, j \in 1..Len(selectedDocuments) :
        i # j => selectedDocuments[i] # selectedDocuments[j]

\* two documents are selected, one of them no longer among the results of the
\* latest search
C17_Witness ==
    /\ Len(selectedDocuments) = 2
    /\ documents = <<"d2">>
    /\ Includes(selectedDocuments, "d1")
    /\ Includes(selectedDocuments, "d2")

\* C18: a guideline search started with a specialty selected and an empty
\* (or blank) search query issues GET /guidelines/specialty/{specialty} and
\* nothing else.
C18_SpecialtyScopedRequest ==
    [][ ( /\ Len(geCalls') > Len(geCalls)
          /\ LastCall(geCalls').handler = "handleSearch"
          /\ selectedSpecialty # ""
          /\ IsBlank(geSearchQuery) ) =>
            LastCall(geCalls').requests =
                << [method |-> "GET",
                    path |-> <<"guidelines", "specialty", selectedSpecialty>>,
                    body |-> << >>] >> ]_vars

C18_Witness ==
    /\ geSearchQuery = EmptyText
    /\ selectedSpecialty = "cardiology"
    /\ geCalls # << >>
    /\ LastCall(geCalls).handler = "handleSearch"
    /\ LastCall(geCalls).requests[1].path = <<"guidelines", "specialty", "cardiology">>

KnownSeverities == {"minor", "moderate", "major", "contraindicated"}
GrayClasses ==
    {"text-gray-600 bg-gray-50 border-gray-200", "bg-gray-100 text-gray-800", "badge-gray"}

\* C19: a severity outside {minor, moderate, major, contraindicated} gets
\* the gray treatment from getSeverityColor of the interaction checker and
\* from the drug-interaction badge of the clinical query.
C19_UnknownSeverityGray ==
    (severityBadge # << >> /\ severityBadge[1].severity \notin KnownSeverities) =>
        /\ severityBadge[1].checker \in GrayClasses
        /\ severityBadge[1].query \in GrayClasses

C19_Witness ==
    /\ severityBadge # << >>
    /\ severityBadge[1].severity = "MAJOR"
    /\ severityBadge[1].checker = "text-gray-600 bg-gray-50 border-gray-200"
    /\ severityBadge[1].query = "badge-gray"

KnownEvidenceLevels == { <<"A">>, <<"B">>, <<"C">>, <<"D">> }

\* C20: an evidence level outside {A, B, C, D} gets the gray treatment from
\* the clinical-query recommendation badge, the guidelines explorer and the
\* knowledge repository, and a level inside {A, B, C, D} gets it from none of
\* the three.
C20_EvidenceLevelDefault ==
    evidenceBadge # << >> =>
        IF evidenceBadge[1].level \in KnownEvidenceLevels
        THEN /\ evidenceBadge[1].query \notin GrayClasses
             /\ evidenceBadge[1].guidelines \notin GrayClasses
             /\ evidenceBadge[1].repository \notin GrayClasses
        ELSE /\ evidenceBadge[1].query \in GrayClasses
             /\ evidenceBadge[1].guidelines \in GrayClasses
             /\ evidenceBadge[1].repository \in GrayClasses

----------------------------------------------------------------------------
(* Claims C21-C30 *)

\* C21: a navigation to another page leaves every page component with its
\* initial state (the new page freshly mounted, the others holding nothing):
\* whatever the page left held is gone when the user returns to it.
C21_NavigationDiscardsState ==
    [][ currentPage' # currentPage => \E page \in Pages : Mounted(page)' ]_vars

\* the user is back on the ClinicalQuery page after a navigation discarded what
\* had been entered there
C21_Witness ==
    /\ currentPage = "clinical-query"
    /\ discarded = << "clinical-query" >>
    /\ query = EmptyText /\ response = NULL /\ cqError = NULL /\ queryHistory = << >>
    /\ patientContext = EmptyContext

\* C25: the mobile sidebar closes only through a close timer started after
\* its latest opening: a timer started before that opening never closes it.
C25_StaleTimerNeverCloses ==
    [][ (sidebarOpen /\ ~sidebarOpen') =>
            (closeTimers # << >> /\ ~Head(closeTimers).stale) ]_vars

\* C22: the "No Drug Interactions Found" message appears only in the step in
\* which a check of the non-blank medications now entered completes
\* successfully with an empty list (not before any check, by a failed check,
\* or by an edit of the entries).
C22_MessageOnlyAfterEmptyCheck ==
    [][ (~NoInteractionsMessage /\ NoInteractionsMessage') =>
            /\ checked' # << >>
            /\ checked'[1].outcome = "done"
            /\ interactions' = << >>
            /\ checked'[1].check.validMedications = NonBlankEntries(medications') ]_vars

\* C23: a submission that was in flight when the form was cleared does not
\* make a response appear when it succeeds.
C23_NoResponseAfterClear ==
    [][ (settled' # << >> /\ settled'[1].ok /\ settled'[1].call.cleared) =>
            response' = NULL ]_vars

\* C24: in the guidelines explorer the loading flag is set while a search or
\* a guideline-detail request is in flight.
C24_LoadingWhileInFlight ==
    (\E k \in 1..Len(geCalls) :
        geCalls[k].handler \in {"handleSearch", "handleGuidelineSelect"}) => geLoading

\* C26: when a check that displayed its interactions ends and no check is left
\* in flight, every displayed summary is of a medication of that check: the
\* interactions of one check are never left next to the summaries of an
\* earlier check.
C26_SummariesOfSameCheck ==
    [][ ( /\ checked' # << >>
          /\ checked'[1].outcome \in {"done", "summaryRejected"}
          /\ checks' = << >> ) =>
            \A i \in 1..Len(drugSummaries') :
                \E j \in 1..Len(checked'[1].check.validMedications) :
                    drugSummaries'[i].name = checked'[1].check.validMedications[j] ]_vars

\* C27: in the guidelines explorer the body of a non-2xx response never
\* becomes the displayed guideline list or the selected guideline.
C27_ErrorBodyNotDisplayed ==
    /\ guidelines.type # "error"
    /\ \A i \in 1..Len(selectedGuideline) : selectedGuideline[i].type # "error"

\* C29: every selected document identifier is the identifier of a document of
\* the displayed search results.
C29_SelectionWithinResults ==
    \A i \in 1..Len(selectedDocuments) :
        \E j \in 1..Len(documents) : documents[j] = selectedDocuments[i]

\* a patient-context field has a value: a defined scalar or a non-empty
\* medication list
HasValue(ctx) == \E k \in DOMAIN ctx : Len(ctx[k]) > 0

\* C30: a submission carries a patient_context only if at least one
\* patient-context field has a value when the form is submitted.
C30_ContextOnlyWithValue ==
    [][ (Len(submitCalls') > Len(submitCalls) /\ LastCall(submitCalls').patient_context # << >>)
            => HasValue(patientContext) ]_vars

\* the submission that was in flight ended in the success or the error state
QueryEnded ==
    /\ ~isLoading
    /\ settled # << >>
    /\ \/ settled[1].ok /\ response # NULL
       \/ ~settled[1].ok /\ cqError # NULL

\* the check that was in flight ended in the success or the error state
CheckEnded ==
    /\ ~loading
    /\ checked # << >>
    /\ \/ checked[1].outcome = "done" /\ diError = NULL
       \/ checked[1].outcome # "done" /\ diError # NULL

\* C28: with every network call settling, a started clinical-query submission
\* and a started interaction check each lead to a state in which the loading
\* flag is false and the success or the error state is entered, as long as
\* the view stays mounted.
C28_SubmissionsEnd ==
    /\ isLoading ~> (QueryEnded \/ currentPage # "clinical-query")
    /\ loading ~> (CheckEnded \/ currentPage # "drug-interactions")

C28_Witness ==
    /\ currentPage = "drug-interactions"
    /\ CheckEnded
    /\ checked[1].outcome = "summaryRejected"
    /\ interactions # << >>

====
